---- MODULE Spec2Model ----
(***************************************************************************)
(* Model of the stock technical scanner: the four scan predicates of       *)
(* src/scanners/ and the orchestration loop perform_scans of src/app.py.   *)
(*                                                                         *)
(* Prices and volumes are float64 values in the program.  The predicates   *)
(* compare the results of float64 divisions, sums and products, so the     *)
(* model carries binary64 arithmetic bit for bit: a float is a sign, a     *)
(* 53-bit significand and an exponent, the significand held as a sequence  *)
(* of limbs because it does not fit a machine integer of TLC.              *)
(***************************************************************************)
EXTENDS Integers, Sequences, FiniteSets, TLC

VARIABLES
  fn,     \* the predicate a caller exercises: "surge", "gap", "uptrend", "volume"
  df,     \* the frame the caller holds and passes to the predicate
  call,   \* the latest call: its arguments, the frame passed and the list returned
  \* the arguments of perform_scans
  tickers, start_date, end_date, scan_start_date,
  price_surge_threshold, upward_gap_threshold, uptrend_min_days, volume_breakout_threshold,
  processed,       \* the loop variable i of perform_scans: the tickers gone through
  fetched,         \* what the data source returned at each fetch of the pass
  scan_a_results, scan_b_results, scan_c_results, scan_d_results,
  tickers_with_surge, tickers_with_gap, tickers_with_uptrend, tickers_with_volume,
  stop_requested,  \* st.session_state['stop_requested']
  pc,              \* where perform_scans stands: "loop", "stopped", "done", "raised"
  ret,             \* the dictionary perform_scans returned
  \* the widgets of main
  scan_days, market, current_date, alpha_range,
  price_surge_pct, upward_gap_pct, uptrend_days, volume_breakout_pct,
  scanning,        \* st.session_state.scanning
  market_tickers,  \* what get_tickers_by_market returned to main
  main_pc          \* where main stands: "ready", "aborted", "scanning", "displayed", "raised"

scanVars == <<fn, df, call>>
argVars ==
  <<tickers, start_date, end_date, scan_start_date, price_surge_threshold,
    upward_gap_threshold, uptrend_min_days, volume_breakout_threshold>>
resultVars ==
  <<scan_a_results, scan_b_results, scan_c_results, scan_d_results,
    tickers_with_surge, tickers_with_gap, tickers_with_uptrend, tickers_with_volume>>
passVars == <<argVars, processed, fetched, resultVars, stop_requested, pc, ret>>
widgetVars ==
  <<scan_days, market, current_date, alpha_range,
    price_surge_pct, upward_gap_pct, uptrend_days, volume_breakout_pct>>
mainVars == <<widgetVars, scanning, market_tickers, main_pc>>
vars == <<scanVars, passVars, mainVars>>

(***************************************************************************)
(* Natural numbers of any size: little-endian limbs in base 2^14, no       *)
(* leading zero limb (the empty sequence is 0).                            *)
(***************************************************************************)
LimbBits == 14
Base == 2^LimbBits

RECURSIVE BNorm(_)
BNorm(a) ==
  IF a = <<>> THEN <<>>
  ELSE IF a[Len(a)] = 0 THEN BNorm(SubSeq(a, 1, Len(a) - 1))
  ELSE a

RECURSIVE BFromInt(_)
BFromInt(n) ==
  IF n = 0 THEN <<>> ELSE <<n % Base>> \o BFromInt(n \div Base)

RECURSIVE BToInt(_)
BToInt(a) ==
  IF a = <<>> THEN 0 ELSE Head(a) + Base * BToInt(Tail(a))

BHead(a) == IF a = <<>> THEN 0 ELSE Head(a)
BTail(a) == IF a = <<>> THEN <<>> ELSE Tail(a)

RECURSIVE BAddC(_, _, _)
BAddC(a, b, c) ==
  IF a = <<>> /\ b = <<>> THEN (IF c = 0 THEN <<>> ELSE <<c>>)
  ELSE LET x == BHead(a) + BHead(b) + c
       IN  <<x % Base>> \o BAddC(BTail(a), BTail(b), x \div Base)

BAdd(a, b) == BAddC(a, b, 0)

\* a - b - c for a >= b + c
RECURSIVE BSubC(_, _, _)
BSubC(a, b, c) ==
  IF a = <<>> THEN <<>>
  ELSE LET x == Head(a) - BHead(b) - c
       IN  <<x % Base>> \o BSubC(Tail(a), BTail(b), IF x < 0 THEN 1 ELSE 0)

BSub(a, b) == BNorm(BSubC(a, b, 0))

\* -1, 0, 1 as a < b, a = b, a > b (both normalised)
RECURSIVE BCmpFrom(_, _, _)
BCmpFrom(a, b, i) ==
  IF i = 0 THEN 0
  ELSE IF a[i] < b[i] THEN -1
  ELSE IF a[i] > b[i] THEN 1
  ELSE BCmpFrom(a, b, i - 1)

BCmp(a, b) ==
  IF Len(a) < Len(b) THEN -1
  ELSE IF Len(a) > Len(b) THEN 1
  ELSE BCmpFrom(a, b, Len(a))

\* a * k + c for 0 <= k < Base
RECURSIVE BMulIntC(_, _, _)
BMulIntC(a, k, c) ==
  IF a = <<>> THEN BFromInt(c)
  ELSE LET x == Head(a) * k + c
       IN  <<x % Base>> \o BMulIntC(Tail(a), k, x \div Base)

BMulInt(a, k) == BNorm(BMulIntC(a, k, 0))

RECURSIVE BMul(_, _)
BMul(a, b) ==
  IF b = <<>> \/ a = <<>> THEN <<>>
  ELSE BNorm(BAdd(BMulInt(a, Head(b)), <<0>> \o BMul(a, Tail(b))))

\* quotient and remainder of a by d, 0 < d < Base, from the top limb down
RECURSIVE BDivIntFrom(_, _, _, _)
BDivIntFrom(a, d, i, r) ==
  IF i = 0 THEN [q |-> <<>>, r |-> r]
  ELSE LET x    == r * Base + a[i]
           rest == BDivIntFrom(a, d, i - 1, x % d)
       IN  [q |-> rest.q \o <<x \div d>>, r |-> rest.r]

BDivInt(a, d) ==
  LET res == BDivIntFrom(a, d, Len(a), 0)
  IN  [q |-> BNorm(res.q), r |-> res.r]

Zeros(n) == [i \in 1..n |-> 0]

\* a * 2^k
BShl(a, k) ==
  IF a = <<>> THEN <<>>
  ELSE Zeros(k \div LimbBits) \o BMulInt(a, 2^(k % LimbBits))

\* floor(a / 2^k)
BShr(a, k) ==
  IF Len(a) <= k \div LimbBits THEN <<>>
  ELSE BDivInt(SubSeq(a, (k \div LimbBits) + 1, Len(a)), 2^(k % LimbBits)).q

RECURSIVE IntBitLen(_)
IntBitLen(n) == IF n = 0 THEN 0 ELSE 1 + IntBitLen(n \div 2)

BBitLen(a) ==
  IF a = <<>> THEN 0 ELSE (Len(a) - 1) * LimbBits + IntBitLen(a[Len(a)])

BIsOdd(a) == a # <<>> /\ Head(a) % 2 = 1

(***************************************************************************)
(* binary64 values: (-1)^neg * mant * 2^exp with mant = 0 (as <<>>) or     *)
(* 2^52 <= mant < 2^53.  Every operation computes the exact result and     *)
(* rounds it to nearest, ties to even, as numpy and CPython do.  The       *)
(* magnitudes of the model stay far from overflow and subnormals.          *)
(***************************************************************************)
MantBits == 53

FZero == [neg |-> FALSE, mant |-> <<>>, exp |-> 0]

\* The missing value of a pandas float column; every comparison with it is false.
NaN == [nan |-> TRUE]
IsNaN(x) == "nan" \in DOMAIN x
notna(x) == ~IsNaN(x)

\* The float nearest to (-1)^neg * (m * 2^e + eps), eps in [0, 2^e), eps > 0 iff sticky.
\* With sticky set, m holds more than MantBits + 1 bits.
FRound(neg, m, e, sticky) ==
  IF m = <<>> THEN FZero
  ELSE LET len == BBitLen(m)
       IN  IF len <= MantBits
           THEN [neg |-> neg, mant |-> BShl(m, MantBits - len), exp |-> e - (MantBits - len)]
           ELSE LET k    == len - MantBits
                    q    == BShr(m, k)
                    r    == BSub(m, BShl(q, k))
                    c    == BCmp(r, BShl(<<1>>, k - 1))
                    up   == c > 0 \/ (c = 0 /\ (sticky \/ BIsOdd(q)))
                    q1   == IF up THEN BAdd(q, <<1>>) ELSE q
                IN  IF BBitLen(q1) > MantBits
                    THEN [neg |-> neg, mant |-> BShr(q1, 1), exp |-> e + k + 1]
                    ELSE [neg |-> neg, mant |-> q1, exp |-> e + k]

Abs(n) == IF n < 0 THEN -n ELSE n

\* float(n) for a machine integer n
FFromInt(n) == FRound(n < 0, BFromInt(Abs(n)), 0, FALSE)

\* float(n) / float(d) for integers n, d with 0 < d < Base, |n| < 2^MantBits:
\* the quotient of two integer-valued floats, correctly rounded
DivGuardBits == 5 * LimbBits
FDivInt(n, d) ==
  LET res == BDivInt(BShl(BFromInt(Abs(n)), DivGuardBits), d)
  IN  FRound(n < 0, res.q, -DivGuardBits, res.r # 0)

FMul(x, y) == FRound(x.neg # y.neg, BMul(x.mant, y.mant), x.exp + y.exp, FALSE)

FNeg(x) == IF x.mant = <<>> THEN x ELSE [x EXCEPT !.neg = ~x.neg]

Min(a, b) == IF a < b THEN a ELSE b

FAdd(x, y) ==
  IF x.mant = <<>> THEN y
  ELSE IF y.mant = <<>> THEN x
  ELSE LET e  == Min(x.exp, y.exp)
           mx == BShl(x.mant, x.exp - e)
           my == BShl(y.mant, y.exp - e)
           c  == BCmp(mx, my)
       IN  IF x.neg = y.neg THEN FRound(x.neg, BAdd(mx, my), e, FALSE)
           ELSE IF c = 0 THEN FZero
           ELSE IF c > 0 THEN FRound(x.neg, BSub(mx, my), e, FALSE)
           ELSE FRound(y.neg, BSub(my, mx), e, FALSE)

FSub(x, y) == FAdd(x, FNeg(y))

\* x > y
FGt(x, y) ==
  IF IsNaN(x) \/ IsNaN(y) THEN FALSE
  ELSE LET d == FSub(x, y)
       IN  d.mant # <<>> /\ ~d.neg

\* int(x) of CPython: truncation toward zero (to a machine integer of the model)
FToInt(x) ==
  LET a == IF x.exp >= 0 THEN BShl(x.mant, x.exp) ELSE BShr(x.mant, -x.exp)
  IN  IF x.neg THEN -BToInt(a) ELSE BToInt(a)

(***************************************************************************)
(* Data frames.  A frame is an index of timestamps (seconds, midnight of a *)
(* trading day) and named columns of equal length.  Open and Close hold    *)
(* integer-valued prices and Volume integers, so the float of a price p is *)
(* FFromInt(p) and the float quotient of two prices is FDivInt.  A         *)
(* threshold is held as the decimal fraction <<n, d>> its caller wrote;    *)
(* the float the program holds is the one nearest to n / d.                *)
(***************************************************************************)
SecondsPerDay == 24 * 60 * 60

\* midnight of day number d (a pandas Timestamp)
Timestamp(d) == d * SecondsPerDay
\* ts.strftime('%Y-%m-%d'): the day of the timestamp, its time of day dropped
strftime(ts) == ts \div SecondsPerDay

Float(t) == FDivInt(t[1], t[2])

len(data) == Len(data.index)
\* data[col].iloc[idx], idx counted from 0
iloc(data, col, idx) == data.cols[col][idx + 1]
\* a position before 0 counts from the end, as in Python
ilocWrap(data, col, idx) == iloc(data, col, IF idx < 0 THEN len(data) + idx ELSE idx)
\* data[col] = values: the frame with the column added or replaced
SetColumn(data, col, values) ==
  [data EXCEPT !.cols = [c \in DOMAIN data.cols \cup {col} |->
                           IF c = col THEN values ELSE data.cols[c]]]

Frame(index, open, close, volume) ==
  [index |-> index, cols |-> [Open |-> open, Close |-> close, Volume |-> volume]]

(***************************************************************************)
(* Scan A: scan_price_surge                                                *)
(***************************************************************************)
\* data['Close'].pct_change() * 100: (close / previous close - 1) * 100, NaN first
PctChangeColumn(data) ==
  [i \in 1..len(data) |->
     IF i = 1 THEN NaN
     ELSE FMul(FSub(FDivInt(data.cols.Close[i], data.cols.Close[i - 1]), FFromInt(1)),
               FFromInt(100))]

SurgeBelow(pct_change, threshold) ==
  FGt(FMul(Float(threshold), FFromInt(100)), pct_change)

\* pct_change > (threshold * 100)
SurgeExceeds(pct_change, threshold) ==
  FGt(pct_change, FMul(Float(threshold), FFromInt(100)))

SurgeFirstIdx == 1

RECURSIVE SurgeLoop(_, _, _, _)
SurgeLoop(data, threshold, idx, results) ==
  IF idx >= len(data) THEN results
  ELSE LET pct_change == iloc(data, "PctChange", idx)
       IN  SurgeLoop(data, threshold, idx + 1,
             IF SurgeExceeds(pct_change, threshold)
             THEN Append(results, <<strftime(data.index[idx + 1]), pct_change,
                                    iloc(data, "Close", idx)>>)
             ELSE results)

\* the frame as the call leaves it
SurgeFrame(data) ==
  IF len(data) < 2 THEN data
  ELSE SetColumn(data, "PctChange", PctChangeColumn(data))

scan_price_surge(data, threshold) ==
  IF len(data) < 2 THEN <<>>
  ELSE SurgeLoop(SurgeFrame(data), threshold, SurgeFirstIdx, <<>>)

(***************************************************************************)
(* Scan B: scan_upward_gap                                                 *)
(***************************************************************************)
\* curr_open > prev_close * (1 + threshold)
GapExceeds(curr_open, prev_close, threshold) ==
  FGt(FFromInt(curr_open),
      FMul(FFromInt(prev_close), FAdd(FFromInt(1), Float(threshold))))

\* ((curr_open - prev_close) / prev_close) * 100
GapPct(curr_open, prev_close) ==
  FMul(FDivInt(curr_open - prev_close, prev_close), FFromInt(100))

GapFirstIdx == 1

RECURSIVE GapLoop(_, _, _, _)
GapLoop(data, threshold, idx, results) ==
  IF idx >= len(data) THEN results
  ELSE LET prev_close == ilocWrap(data, "Close", idx - 1)
           curr_open  == iloc(data, "Open", idx)
       IN  GapLoop(data, threshold, idx + 1,
             IF GapExceeds(curr_open, prev_close, threshold)
             THEN Append(results, <<strftime(data.index[idx + 1]),
                                    GapPct(curr_open, prev_close), curr_open>>)
             ELSE results)

scan_upward_gap_from_first_bar(data, threshold) == GapLoop(data, threshold, 0, <<>>)

scan_upward_gap(data, threshold) ==
  IF len(data) < 2 THEN <<>>
  ELSE GapLoop(data, threshold, GapFirstIdx, <<>>)

(***************************************************************************)
(* Scan C: scan_continuous_uptrend                                         *)
(***************************************************************************)
RisesOrHolds(data, idx) == iloc(data, "Close", idx) >= ilocWrap(data, "Close", idx - 1)

\* data['Close'].iloc[idx] > data['Close'].iloc[idx - 1]
Rises(data, idx) == iloc(data, "Close", idx) > ilocWrap(data, "Close", idx - 1)

UptrendStart == 1

UptrendOver(consecutive_days, min_days) == consecutive_days > min_days

\* consecutive_days >= min_days
UptrendMet(consecutive_days, min_days) == consecutive_days >= min_days

RECURSIVE UptrendLoop(_, _, _, _, _)
UptrendLoop(data, min_days, idx, consecutive_days, results) ==
  IF idx >= len(data) THEN results
  ELSE IF Rises(data, idx)
       THEN UptrendLoop(data, min_days, idx + 1, consecutive_days + 1,
              IF UptrendMet(consecutive_days + 1, min_days)
              THEN Append(results, <<strftime(data.index[idx + 1]), consecutive_days + 1,
                                     iloc(data, "Close", idx)>>)
              ELSE results)
       ELSE UptrendLoop(data, min_days, idx + 1, 1, results)

scan_continuous_uptrend(data, min_days) ==
  IF len(data) < min_days THEN <<>>
  ELSE UptrendLoop(data, min_days, 1, UptrendStart, <<>>)

(***************************************************************************)
(* Scan D: scan_volume_breakout                                            *)
(***************************************************************************)
RECURSIVE SumVolume(_, _, _)
SumVolume(data, from, to) ==
  IF from > to THEN 0 ELSE iloc(data, "Volume", from) + SumVolume(data, from + 1, to)

\* data['Volume'].rolling(window=ma_period).mean(): NaN until the window is full,
\* then the sum of the ma_period volumes ending at the bar, divided by ma_period
VolumeMAColumn(data, ma_period) ==
  [i \in 1..len(data) |->
     IF i < ma_period THEN NaN
     ELSE FDivInt(SumVolume(data, i - ma_period, i - 1), ma_period)]

\* pd.notna(avg_volume) and volume > avg_volume * (1 + threshold)
VolumeExceeds(volume, avg_volume, threshold) ==
  /\ notna(avg_volume)
  /\ FGt(FFromInt(volume), FMul(avg_volume, FAdd(FFromInt(1), Float(threshold))))

VolumeFirstIdx(ma_period) == ma_period

RECURSIVE VolumeLoop(_, _, _, _)
VolumeLoop(data, threshold, idx, results) ==
  IF idx >= len(data) THEN results
  ELSE LET volume     == iloc(data, "Volume", idx)
           avg_volume == iloc(data, "VolumeMA", idx)
       IN  VolumeLoop(data, threshold, idx + 1,
             IF VolumeExceeds(volume, avg_volume, threshold)
             THEN Append(results, <<strftime(data.index[idx + 1]), volume,
                                    FToInt(avg_volume)>>)
             ELSE results)

VolumeFrame(data, ma_period) ==
  IF len(data) < ma_period THEN data
  ELSE SetColumn(data, "VolumeMA", VolumeMAColumn(data, ma_period))

scan_volume_breakout(data, threshold, ma_period) ==
  IF len(data) < ma_period THEN <<>>
  ELSE VolumeLoop(VolumeFrame(data, ma_period), threshold, VolumeFirstIdx(ma_period), <<>>)

(***************************************************************************)
(* perform_scans of src/app.py.  Text is text: an f-string is the string   *)
(* it builds.  A date string stands as the number of the day it names.    *)
(***************************************************************************)
RECURSIVE Digits(_, _)
Digits(n, width) ==
  IF width = 0 THEN "" ELSE Digits(n \div 10, width - 1) \o ToString(n % 10)

\* f"{x:.<digits>f}": the decimal nearest to x with so many digits, ties to even
FmtFixed(x, digits) ==
  IF IsNaN(x) THEN "nan"
  ELSE LET scaled == BMulInt(x.mant, 10^digits)
           sh     == -x.exp
           q      == IF sh <= 0 THEN BShl(scaled, -sh) ELSE BShr(scaled, sh)
           r      == IF sh <= 0 THEN <<>> ELSE BSub(scaled, BShl(q, sh))
           c      == IF sh <= 0 THEN -1 ELSE BCmp(r, BShl(<<1>>, sh - 1))
           up     == c > 0 \/ (c = 0 /\ BIsOdd(q))
           units  == BToInt(IF up THEN BAdd(q, <<1>>) ELSE q)
       IN  (IF x.neg THEN "-" ELSE "") \o ToString(units \div 10^digits)
             \o (IF digits = 0 THEN "" ELSE "." \o Digits(units % 10^digits, digits))

\* f"${price:.2f}"
Dollars(price) == "$" \o FmtFixed(FFromInt(price), 2)

None == [none |-> TRUE]
IsNone(x) == "none" \in DOMAIN x
\* an exception that leaves the function
Raised == [raised |-> TRUE]
IsRaised(x) == "raised" \in DOMAIN x

MinBars == 10
DefaultMaPeriod == 50

\* the positions of the index whose timestamp lies in [lo, hi)
Positions(index, lo, hi) ==
  SelectSeq([k \in 1..Len(index) |-> k], LAMBDA k : lo <= index[k] /\ index[k] < hi)

\* the rows of the frame at the given positions
Rows(data, at) ==
  [index |-> [k \in 1..Len(at) |-> data.index[at[k]]],
   cols  |-> [col \in DOMAIN data.cols |-> [k \in 1..Len(at) |-> data.cols[col][at[k]]]]]

\* stock.history(start=start, end=end): the bars of the feed from start to before end
history(feed, start, end) ==
  IF feed.kind = "error" THEN Raised
  ELSE Rows(feed.data, Positions(feed.data.index, start, end))

fetch_stock_data_uncaught(feed, start, end) ==
  LET data == history(feed, start, end)
  IN  IF IsRaised(data) THEN Raised
      ELSE IF len(data) = 0 \/ len(data) < MinBars THEN None
      ELSE data

fetch_stock_data(feed, start, end) ==
  LET data == history(feed, start, end)
  IN  IF IsRaised(data) THEN None
      ELSE IF len(data) = 0 \/ len(data) < MinBars THEN None
      ELSE data

ScanDataWithBarBefore(data, scan_start_compare) ==
  Rows(data, SelectSeq([k \in 1..len(data) |-> k],
                       LAMBDA k : data.index[Min(k + 1, len(data))] >= scan_start_compare))

\* data[data.index >= scan_start_compare]
ScanData(data, scan_start_compare) ==
  Rows(data, SelectSeq([k \in 1..len(data) |-> k], LAMBDA k : data.index[k] >= scan_start_compare))

\* pd.Timestamp(date) of a date string: midnight of the day
ParseDate(date) == Timestamp(date)

\* scan_data.loc[date, col] if date in scan_data.index else 'N/A'
Loc(scan_data, date, col) ==
  LET at == Positions(scan_data.index, ParseDate(date), ParseDate(date + 1))
  IN  IF at = <<>> THEN "N/A" ELSE scan_data.cols[col][at[1]]

\* f"${scan_data.loc[date, 'Close']:.2f}" if date in scan_data.index else 'N/A'
LocPrice(scan_data, date) ==
  LET at == Positions(scan_data.index, ParseDate(date), ParseDate(date + 1))
  IN  IF at = <<>> THEN "N/A" ELSE Dollars(scan_data.cols.Close[at[1]])

SurgeRows(ticker, scan_data, surge_results) ==
  [k \in 1..Len(surge_results) |->
     ("Ticker" :> ticker @@ "Date" :> surge_results[k][1]
        @@ "Price Change (%)" :> FmtFixed(surge_results[k][2], 2)
        @@ "Close Price" :> Dollars(surge_results[k][3])
        @@ "Volume" :> Loc(scan_data, surge_results[k][1], "Volume"))]

GapRows(ticker, scan_data, gap_results) ==
  [k \in 1..Len(gap_results) |->
     ("Ticker" :> ticker @@ "Date" :> gap_results[k][1]
        @@ "Gap (%)" :> FmtFixed(gap_results[k][2], 2)
        @@ "Open Price" :> Dollars(gap_results[k][3])
        @@ "Volume" :> Loc(scan_data, gap_results[k][1], "Volume"))]

UptrendRows(ticker, scan_data, uptrend_results) ==
  [k \in 1..Len(uptrend_results) |->
     ("Ticker" :> ticker @@ "End Date" :> uptrend_results[k][1]
        @@ "Consecutive Days" :> uptrend_results[k][2]
        @@ "Close Price" :> Dollars(uptrend_results[k][3])
        @@ "Volume" :> Loc(scan_data, uptrend_results[k][1], "Volume"))]

VolumeAnyPeriod(date_compare, scan_start_compare) == TRUE

\* date_compare >= scan_start_compare
VolumeInPeriod(date_compare, scan_start_compare) == date_compare >= scan_start_compare

\* the tuples (date, volume_ratio, volume) of the loop, kept when in the scan period
VolumeKept(volume_results, scan_start_compare) ==
  SelectSeq(volume_results, LAMBDA hit : VolumeInPeriod(ParseDate(hit[1]), scan_start_compare))

VolumeRows(ticker, scan_data, kept) ==
  [k \in 1..Len(kept) |->
     ("Ticker" :> ticker @@ "Date" :> kept[k][1]
        @@ "Volume Increase (%)" :> FmtFixed(FFromInt(kept[k][2]), 2)
        @@ "Volume" :> kept[k][3]
        @@ "Price" :> LocPrice(scan_data, kept[k][1]))]

FirstThreeCriteria(surge, gap, uptrend, volume) == surge \cap gap \cap uptrend

\* tickers_with_surge & tickers_with_gap & tickers_with_uptrend & tickers_with_volume
AllCriteria(surge, gap, uptrend, volume) == surge \cap gap \cap uptrend \cap volume

\* the code points of the symbols of the universe
Codes(ticker) ==
  CASE ticker = "AB"   -> <<65, 66>>
    [] ticker = "B"    -> <<66>>
    [] ticker = "SPY"  -> <<83, 80, 89>>
    [] ticker = "AAPL" -> <<65, 65, 80, 76>>
    [] ticker = "DOW"  -> <<68, 79, 87>>
    [] ticker = "EBAY" -> <<69, 66, 65, 89>>
    [] ticker = "FORD" -> <<70, 79, 82, 68>>
    [] ticker = "GOOG" -> <<71, 79, 79, 71>>
    [] ticker = "ZOOM" -> <<90, 79, 79, 77>>
    [] ticker = "fox"  -> <<102, 111, 120>>
    [] ticker = "3M"   -> <<51, 77>>
    [] ticker = "V"    -> <<86>>

\* s < t of two Python strings: by code point, a proper prefix first
RECURSIVE LexLess(_, _)
LexLess(s, t) ==
  IF t = <<>> THEN FALSE
  ELSE IF s = <<>> THEN TRUE
  ELSE IF Head(s) # Head(t) THEN Head(s) < Head(t)
  ELSE LexLess(Tail(s), Tail(t))

RECURSIVE sorted(_)
sorted(S) ==
  IF S = {} THEN <<>>
  ELSE LET least == CHOOSE s \in S : \A t \in S \ {s} : LexLess(Codes(s), Codes(t))
       IN  <<least>> \o sorted(S \ {least})

LastOf(rows, ticker, field) ==
  LET at == SelectSeq(rows, LAMBDA row : row["Ticker"] = ticker)
  IN  IF at = <<>> THEN "N/A" ELSE at[Len(at)][field]

\* the field of the first row of the ticker, 'N/A' when it has none
FirstOf(rows, ticker, field) ==
  LET at == SelectSeq(rows, LAMBDA row : row["Ticker"] = ticker)
  IN  IF at = <<>> THEN "N/A" ELSE at[1][field]

CombinedRows(order, a_results, d_results) ==
  [k \in 1..Len(order) |->
     ("Ticker" :> order[k]
        @@ "Price" :> FirstOf(a_results, order[k], "Close Price")
        @@ "Volume" :> FirstOf(d_results, order[k], "Volume")
        @@ "Criteria Met" :> "All 4"
        @@ "Yahoo Finance" :> "https://finance.yahoo.com/quote/" \o order[k])]

\* pd.DataFrame(rows): the columns are the keys of the rows, none for no rows
DataFrame(rows) ==
  [columns |-> IF rows = <<>> THEN {} ELSE DOMAIN rows[1], rows |-> rows]

Percent(t, digits) == FmtFixed(FMul(Float(t), FFromInt(100)), digits)

\* the keys of the returned dictionary; ">=" stands for the sign U+2265
KeyA(t) == "Scan A: Price Surge (>" \o Percent(t, 1) \o "%)"
KeyB(t) == "Scan B: Upward Gap (>" \o Percent(t, 1) \o "%)"
KeyC(min_days) == "Scan C: Continuous Uptrend (>=" \o ToString(min_days) \o " days)"
KeyD(t) == "Scan D: Volume Breakout (>" \o Percent(t, 0) \o "%)"
KeyCombined == "Combined: All 4 Criteria"

(***************************************************************************)
(* main: the ticker universe, the alphabetical filter, the dates of the    *)
(* two windows and the names the tables are read by.                       *)
(***************************************************************************)
\* the head of the curated list
get_amex_tickers == <<"SPY">>

get_russell2000_tickers == <<>>

\* c.isalnum() for an ASCII character
isalnum(code) ==
  \/ code >= 48 /\ code <= 57
  \/ code >= 65 /\ code <= 90
  \/ code >= 97 /\ code <= 122

\* 1 to 5 characters, letters and digits once dashes and dots are taken out
ValidTicker(ticker) ==
  LET clean_ticker == SelectSeq(Codes(ticker), LAMBDA code : code # 45 /\ code # 46)
  IN  /\ 1 <= Len(Codes(ticker)) /\ Len(Codes(ticker)) <= 5
      /\ clean_ticker # <<>>
      /\ \A k \in 1..Len(clean_ticker) : isalnum(clean_ticker[k])

\* web: what each source on the network returns, [] when it fails
get_comprehensive_us_tickers(web) ==
  LET all_tickers == web.nasdaq_listed \o web.other_listed \o get_amex_tickers
      unique_tickers == {all_tickers[k] : k \in 1..Len(all_tickers)}
  IN  sorted({ticker \in unique_tickers : ValidTicker(ticker)})

get_tickers_by_market(name, web) ==
  CASE name = "S&P 500"        -> web.sp500
    [] name = "NASDAQ"         -> web.nasdaq_listed
    [] name = "NYSE"           -> web.other_listed
    [] name = "AMEX"           -> get_amex_tickers
    [] name = "Russell 2000"   -> get_russell2000_tickers
    [] name = "Dow 30"         -> web.dow30
    [] name = "All US Markets" -> get_comprehensive_us_tickers(web)
    [] OTHER                   -> <<>>

NeverEmpty(found) == FALSE

\* not tickers
NoTickers(found) == found = <<>>

\* c.upper() for an ASCII character
upper(code) == IF code >= 97 /\ code <= 122 THEN code - 32 ELSE code

RangeMapToLastLetter ==
  ("A-C" :> <<65, 67>>) @@ ("D-F" :> <<68, 70>>) @@ ("G-I" :> <<71, 73>>)
    @@ ("J-L" :> <<74, 76>>) @@ ("M-O" :> <<77, 79>>) @@ ("P-R" :> <<80, 82>>)
    @@ ("S-U" :> <<83, 85>>) @@ ("V-Z" :> <<86, 90>>)

\* the letters as code points: 'A' is 65, '[' is 91
range_map ==
  ("A-C" :> <<65, 68>>) @@ ("D-F" :> <<68, 71>>) @@ ("G-I" :> <<71, 74>>)
    @@ ("J-L" :> <<74, 77>>) @@ ("M-O" :> <<77, 80>>) @@ ("P-R" :> <<80, 83>>)
    @@ ("S-U" :> <<83, 86>>) @@ ("V-Z" :> <<86, 91>>)

\* lines 371-388: the tickers whose first letter lies in the range chosen
AlphaFilter(found, range) ==
  IF range # "All (A-Z)" /\ range \in DOMAIN range_map
  THEN LET start_letter == range_map[range][1]
           end_letter   == range_map[range][2]
       IN  SelectSeq(found, LAMBDA t : /\ start_letter <= upper(Codes(t)[1])
                                       /\ upper(Codes(t)[1]) < end_letter)
  ELSE found

\* timedelta(days=n)
timedelta(days) == days * SecondsPerDay

\* pct / 100 of a percentage <<n, d>>
Fraction(pct) == <<pct[1], pct[2] * 100>>

\* lines 339-348: the top of a run; the Stop button is there while scanning is set
TopOfRun(is_scanning, flag, stop_button) ==
  IF is_scanning THEN (IF stop_button THEN TRUE ELSE flag) ELSE FALSE

StopLeftAsItWas(flag) == flag

\* st.session_state.stop_requested = False, before the tickers are retrieved
StopCleared(flag) == FALSE

\* the names main reads the tables by; ">=" stands for the sign U+2265
Lookups ==
  << "Scan A: Price Surge (>5%)", "Scan B: Upward Gap",
     "Scan C: Continuous Uptrend (>=4 days)", "Scan D: Volume Breakout",
     "Combined: All 4 Criteria" >>

(***************************************************************************)
(* The predicates called on their own: a caller holds one frame and calls  *)
(* one predicate on it, again and again, with arguments of its choice.     *)
(***************************************************************************)
MaxLen == 3
MaxLenGap == 2
MaxLenUptrend == 5
MaxLenVolume == 3
MaxMinDays == 5
MaxMaPeriod == 2

\* day number of the k-th trading day (k from 0), day 0 a Monday: weekends are skipped
TradingDay(k) == k + 2 * (k \div 5)
TradingIndex(n) == [i \in 1..n |-> Timestamp(TradingDay(i - 1))]

RECURSIVE SeqsUpTo(_, _)
SeqsUpTo(S, n) ==
  IF n = 0 THEN {<<>>}
  ELSE LET shorter == SeqsUpTo(S, n - 1)
       IN  shorter \cup {Append(q, x) : q \in {r \in shorter : Len(r) = n - 1}, x \in S}

\* a flat volume of 1000 shares
Quiet(n) == [i \in 1..n |-> 1000]

SurgeCloses == {95, 100, 105, 110}
SurgeThresholds == {<<-1, 20>>, <<0, 1>>, <<1, 100>>, <<1, 20>>, <<1, 10>>}
SurgeFrames ==
  {Frame(TradingIndex(Len(c)), c, c, Quiet(Len(c))) : c \in SeqsUpTo(SurgeCloses, MaxLen)}

GapBars == {<<200, 200>>, <<201, 200>>, <<204, 200>>, <<204, 204>>, <<200, 204>>}
GapThresholds == {<<0, 1>>, <<1, 200>>, <<1, 100>>, <<1, 20>>}
GapFrames ==
  {Frame(TradingIndex(Len(b)), [i \in 1..Len(b) |-> b[i][1]], [i \in 1..Len(b) |-> b[i][2]],
         Quiet(Len(b))) : b \in SeqsUpTo(GapBars, MaxLenGap)}

UptrendSteps == {-5, 0, 5}
RECURSIVE Walk(_, _)
Walk(first, steps) ==
  IF steps = <<>> THEN <<first>>
  ELSE <<first>> \o Walk(first + Head(steps), Tail(steps))
\* the closes 10, 10.5, 11, 11.2, 11.5, 11.0 of the documented example, in tenths
UptrendExample == <<100, 105, 110, 112, 115, 110>>
UptrendCloses ==
  {<<>>, UptrendExample} \cup {Walk(100, st) : st \in SeqsUpTo(UptrendSteps, MaxLenUptrend - 1)}
UptrendFrames ==
  {Frame(TradingIndex(Len(c)), c, c, Quiet(Len(c))) : c \in UptrendCloses}

Volumes == {800000, 820000, 1000000}
VolumeThresholds == {<<1, 10>>, <<3, 20>>}
\* volumes whose last bar stands exactly 15% above the mean of the last two
VolumeAtThreshold == <<100, 85, 115>>
VolumeFrames ==
  {Frame(TradingIndex(Len(v)), [i \in 1..Len(v) |-> 100],
         [i \in 1..Len(v) |-> 100], v) :
     v \in SeqsUpTo(Volumes, MaxLenVolume) \cup {VolumeAtThreshold}}

NoCall == [fn |-> "none"]

NoFrame == Frame(<<>>, <<>>, <<>>, <<>>)

\* main has not run: the widgets hold their defaults
IdleWidgets ==
  /\ scan_days = 20 /\ market = "S&P 500" /\ current_date = 0
  /\ alpha_range = "All (A-Z)"
  /\ price_surge_pct = <<5, 1>> /\ upward_gap_pct = <<1, 1>>
  /\ uptrend_days = 4 /\ volume_breakout_pct = <<10, 1>>

IdleMain ==
  /\ IdleWidgets
  /\ scanning = FALSE /\ market_tickers = <<>> /\ main_pc = "ready"

IdlePass ==
  /\ tickers = <<>> /\ start_date = 0 /\ end_date = 0 /\ scan_start_date = 0
  /\ price_surge_threshold = <<0, 1>> /\ upward_gap_threshold = <<0, 1>>
  /\ uptrend_min_days = 0 /\ volume_breakout_threshold = <<0, 1>>
  /\ processed = 0 /\ fetched = <<>>
  /\ scan_a_results = <<>> /\ scan_b_results = <<>>
  /\ scan_c_results = <<>> /\ scan_d_results = <<>>
  /\ tickers_with_surge = {} /\ tickers_with_gap = {}
  /\ tickers_with_uptrend = {} /\ tickers_with_volume = {}
  /\ stop_requested = FALSE /\ pc = "idle" /\ ret = None

InitScan ==
  /\ fn \in {"surge", "gap", "uptrend", "volume"}
  /\ df \in CASE fn = "surge"   -> SurgeFrames
                [] fn = "gap"     -> GapFrames
                [] fn = "uptrend" -> UptrendFrames
                [] fn = "volume"  -> VolumeFrames
  /\ call = NoCall
  /\ IdlePass
  /\ IdleMain

CallPriceSurge ==
  /\ fn = "surge"
  /\ \E threshold \in SurgeThresholds :
       call' = [fn |-> "surge", threshold |-> threshold, passed |-> df,
                results |-> scan_price_surge(df, threshold)]
  /\ df' = SurgeFrame(df)
  /\ UNCHANGED <<fn, passVars, mainVars>>

CallUpwardGap ==
  /\ fn = "gap"
  /\ \E threshold \in GapThresholds :
       call' = [fn |-> "gap", threshold |-> threshold, passed |-> df,
                results |-> scan_upward_gap(df, threshold)]
  /\ UNCHANGED <<fn, df, passVars, mainVars>>

CallContinuousUptrend ==
  /\ fn = "uptrend"
  /\ \E min_days \in 1..MaxMinDays :
       call' = [fn |-> "uptrend", min_days |-> min_days, passed |-> df,
                results |-> scan_continuous_uptrend(df, min_days)]
  /\ UNCHANGED <<fn, df, passVars, mainVars>>

CallVolumeBreakout ==
  /\ fn = "volume"
  /\ \E threshold \in VolumeThresholds, ma_period \in 1..MaxMaPeriod :
       /\ call' = [fn |-> "volume", threshold |-> threshold, ma_period |-> ma_period,
                   passed |-> df,
                   results |-> scan_volume_breakout(df, threshold, ma_period)]
       /\ df' = VolumeFrame(df, ma_period)
  /\ UNCHANGED <<fn, passVars, mainVars>>

NextScan ==
  \/ CallPriceSurge
  \/ CallUpwardGap
  \/ CallContinuousUptrend
  \/ CallVolumeBreakout

SpecScan == InitScan /\ [][NextScan]_vars

(***************************************************************************)
(* One pass of perform_scans over a list of tickers.  What the data source *)
(* returns for a ticker is the environment's choice at each fetch: an      *)
(* error, no bars, or one of a few histories that end on the last trading  *)
(* day before end_date.                                                    *)
(***************************************************************************)
MaxTickers == 2
FetchBars == 53

Symbols == {"AB", "B"}

\* bars <<open, close, volume>>: a quiet day, a volume spike, a 10% jump, both
QuietBar == <<100, 100, 1000>>
SpikeBar == <<100, 100, 2000>>
JumpBar == <<110, 110, 1000>>
JumpSpikeBar == <<110, 110, 2000>>
\* a second 10% jump, on a spike, after a jump
SecondJumpBar == <<121, 121, 2000>>

\* a history of quiet days followed by the given bars, ending on the last trading day
History(quiet, tail) ==
  LET bars  == [k \in 1..quiet |-> QuietBar] \o tail
      first == FetchBars - Len(bars)
  IN  Frame([k \in 1..Len(bars) |-> Timestamp(TradingDay(first + k - 1))],
            [k \in 1..Len(bars) |-> bars[k][1]],
            [k \in 1..Len(bars) |-> bars[k][2]],
            [k \in 1..Len(bars) |-> bars[k][3]])

Histories ==
  { History(0, <<>>),
    History(MinBars - 2, <<JumpBar>>),
    History(MinBars - 1, <<JumpBar>>),
    History(FetchBars - 3, <<SpikeBar, QuietBar, JumpSpikeBar>>),
    History(FetchBars - 3, <<SpikeBar, QuietBar, JumpBar>>),
    History(FetchBars - 3, <<SpikeBar, JumpBar, SecondJumpBar>>) }

Feeds == {[kind |-> "error"]} \cup {[kind |-> "data", data |-> h] : h \in Histories}

FirstDay == Timestamp(TradingDay(0))
LastDay == Timestamp(TradingDay(FetchBars - 1))
\* midnight and noon of the third trading day from the end, midnight of the last
ScanStarts ==
  { Timestamp(TradingDay(FetchBars - 3)),
    Timestamp(TradingDay(FetchBars - 3)) + SecondsPerDay \div 2,
    LastDay }

\* perform_scans is entered with its arguments: lines 82-96
Init ==
  /\ fn = "none" /\ df = NoFrame /\ call = NoCall
  /\ tickers \in SeqsUpTo(Symbols, MaxTickers)
  /\ start_date = FirstDay
  /\ end_date = LastDay + SecondsPerDay
  /\ scan_start_date \in ScanStarts
  /\ price_surge_threshold = <<1, 20>>
  /\ upward_gap_threshold = <<1, 100>>
  /\ uptrend_min_days \in {2, 4}
  /\ volume_breakout_threshold = <<1, 10>>
  /\ processed = 0 /\ fetched = <<>>
  /\ scan_a_results = <<>> /\ scan_b_results = <<>>
  /\ scan_c_results = <<>> /\ scan_d_results = <<>>
  /\ tickers_with_surge = {} /\ tickers_with_gap = {}
  /\ tickers_with_uptrend = {} /\ tickers_with_volume = {}
  /\ stop_requested = FALSE /\ pc = "loop" /\ ret = None
  /\ IdleMain

AddedWhateverTheResults(hits, ticker, results) == hits \cup {ticker}

Added(hits, ticker, results) == IF results # <<>> THEN hits \cup {ticker} ELSE hits

Overwritten(results, rows) == rows

\* results.append(row) for each of the rows, in their order
Appended(results, rows) == results \o rows

SameIndex(position) == position

\* the next turn of for i, ticker in enumerate(tickers)
NextIndex(position) == position + 1

StopUnseen(flag) == FALSE

\* st.session_state.get('stop_requested', False)
StopSeen(flag) == flag

\* one iteration of the loop over the tickers: lines 98-180; each local of the
\* iteration is bound once, as the one element of a set
ScanTicker ==
  /\ pc = "loop" /\ processed < Len(tickers) /\ ~StopSeen(stop_requested)
  /\ \E feed \in Feeds :
       \E ticker \in {tickers[processed + 1]},
          data \in {fetch_stock_data(feed, start_date, end_date)} :
           /\ fetched' = Append(fetched, [ticker |-> ticker, feed |-> feed])
           /\ IF IsRaised(data)
              THEN /\ pc' = "raised"
                   /\ UNCHANGED <<processed, resultVars>>
              ELSE IF IsNone(data)
              THEN /\ processed' = NextIndex(processed)
                   /\ UNCHANGED <<pc, resultVars>>
              ELSE \E scan_data \in {ScanData(data, scan_start_date)} :
                   \E surge_results \in {scan_price_surge(scan_data, price_surge_threshold)},
                      gap_results \in {scan_upward_gap(scan_data, upward_gap_threshold)},
                      uptrend_results \in {scan_continuous_uptrend(scan_data, uptrend_min_days)},
                      volume_results \in
                        {scan_volume_breakout(data, volume_breakout_threshold, DefaultMaPeriod)} :
                   \E kept \in {VolumeKept(volume_results, scan_start_date)} :
                       /\ tickers_with_surge' = Added(tickers_with_surge, ticker, surge_results)
                       /\ scan_a_results' =
                            Appended(scan_a_results, SurgeRows(ticker, scan_data, surge_results))
                       /\ tickers_with_gap' = Added(tickers_with_gap, ticker, gap_results)
                       /\ scan_b_results' =
                            Appended(scan_b_results, GapRows(ticker, scan_data, gap_results))
                       /\ tickers_with_uptrend' =
                            Added(tickers_with_uptrend, ticker, uptrend_results)
                       /\ scan_c_results' =
                            Appended(scan_c_results, UptrendRows(ticker, scan_data, uptrend_results))
                       /\ tickers_with_volume' = Added(tickers_with_volume, ticker, kept)
                       /\ scan_d_results' =
                            Appended(scan_d_results, VolumeRows(ticker, scan_data, kept))
                       /\ processed' = NextIndex(processed)
                       /\ UNCHANGED pc
  /\ UNCHANGED <<scanVars, argVars, stop_requested, ret, mainVars>>

\* lines 182-221: the combined table and the returned dictionary
Returned ==
  LET all_criteria_tickers ==
        AllCriteria(tickers_with_surge, tickers_with_gap,
                    tickers_with_uptrend, tickers_with_volume)
      combined_results ==
        CombinedRows(sorted(all_criteria_tickers), scan_a_results, scan_d_results)
  IN  (KeyA(price_surge_threshold) :> DataFrame(scan_a_results))
        @@ (KeyB(upward_gap_threshold) :> DataFrame(scan_b_results))
        @@ (KeyC(uptrend_min_days) :> DataFrame(scan_c_results))
        @@ (KeyD(volume_breakout_threshold) :> DataFrame(scan_d_results))
        @@ (KeyCombined :> DataFrame(combined_results))

\* the stop flag is seen at the top of an iteration: lines 100-103, then 182-221
StopScan ==
  /\ pc = "loop" /\ processed < Len(tickers) /\ StopSeen(stop_requested)
  /\ pc' = "stopped"
  /\ ret' = Returned
  /\ UNCHANGED <<scanVars, argVars, processed, fetched, resultVars, stop_requested, mainVars>>

\* the list is exhausted: lines 182-221
FinishScan ==
  /\ pc = "loop" /\ processed = Len(tickers)
  /\ pc' = "done"
  /\ ret' = Returned
  /\ UNCHANGED <<scanVars, argVars, processed, fetched, resultVars, stop_requested, mainVars>>

\* the user presses Stop while the pass runs
RequestStop ==
  /\ pc = "loop" /\ ~stop_requested
  /\ stop_requested' = TRUE
  /\ UNCHANGED <<scanVars, argVars, processed, fetched, resultVars, pc, ret, mainVars>>

Next ==
  \/ ScanTicker
  \/ StopScan
  \/ FinishScan
  \/ RequestStop

Spec == Init /\ [][Next]_vars

\* a turn of the loop: the pass goes on to the next ticker, or ends
LoopStep ==
  /\ pc = "loop"
  /\ \/ processed' = processed + 1 /\ pc' = pc
     \/ processed' = processed /\ pc' \in {"stopped", "done", "raised"}

(* The loop runs in one thread with nothing to wait for but the fetch, which
   returns or raises, and time.sleep(0.1), which returns: while the loop
   runs, a turn of it is eventually taken.  Nothing obliges the user to
   press Stop. *)
LoopFairness == WF_<<pc, processed>>(LoopStep)

SpecFair == Spec /\ LoopFairness

(***************************************************************************)
(* The alphabetical filter of main on its own: a list of tickers and the   *)
(* choices of the selectbox.                                                *)
(***************************************************************************)
MaxFilterLen == 2

FilterSymbols == {"AAPL", "DOW", "EBAY", "FORD", "GOOG", "ZOOM", "fox", "3M", "V"}
FilterExample == <<"AAPL", "DOW", "EBAY", "FORD", "GOOG", "ZOOM">>
AlphaRanges == {"All (A-Z)", "A-C", "D-F", "G-I", "J-L", "M-O", "P-R", "S-U", "V-Z"}

InitFilter ==
  /\ fn = "filter" /\ df = NoFrame /\ call = NoCall
  /\ IdlePass /\ IdleWidgets
  /\ scanning = FALSE /\ main_pc = "ready"
  /\ market_tickers \in SeqsUpTo(FilterSymbols, MaxFilterLen) \cup {FilterExample}

ApplyFilter ==
  /\ fn = "filter"
  /\ \E range \in AlphaRanges :
       call' = [fn |-> "filter", alpha_range |-> range, passed |-> market_tickers,
                results |-> AlphaFilter(market_tickers, range)]
  /\ UNCHANGED <<fn, df, passVars, mainVars>>

NextFilter == ApplyFilter

SpecFilter == InitFilter /\ [][NextFilter]_vars

(***************************************************************************)
(* One run of main with the Start Scan button pressed: the universe of the *)
(* market is retrieved, filtered and handed to perform_scans, whose tables *)
(* main then reads.  The sources on the network return a listing or fail.  *)
(***************************************************************************)
Markets == {"S&P 500", "NASDAQ", "NYSE", "AMEX", "Russell 2000", "All US Markets"}
Listings == {<<>>, <<"V">>}
Web == [sp500 : Listings, nasdaq_listed : Listings, other_listed : Listings,
        dow30 : Listings]

InitMain ==
  /\ fn = "none" /\ df = NoFrame /\ call = NoCall
  /\ IdlePass
  /\ scan_days \in {5, 20, 60}
  /\ market \in Markets
  /\ current_date = strftime(LastDay) + 1
  /\ alpha_range \in {"All (A-Z)", "S-U"}
  /\ price_surge_pct \in {<<5, 1>>, <<11, 2>>}
  /\ upward_gap_pct = <<1, 1>>
  /\ uptrend_days \in {2, 4}
  /\ volume_breakout_pct = <<10, 1>>
  /\ scanning = FALSE /\ market_tickers = <<>> /\ main_pc = "ready"

\* lines 351-409: Start Scan is pressed, up to the call of perform_scans
StartScan ==
  /\ main_pc = "ready"
  /\ end_date' = Timestamp(current_date)
  /\ start_date' = end_date' - timedelta(scan_days + 55)
  /\ scan_start_date' = end_date' - timedelta(scan_days)
  /\ stop_requested' = StopCleared(TopOfRun(scanning, stop_requested, FALSE))
  /\ \E web \in Web : market_tickers' = get_tickers_by_market(market, web)
  /\ IF NoTickers(market_tickers')
     THEN /\ scanning' = FALSE
          /\ main_pc' = "aborted"
          /\ UNCHANGED <<tickers, price_surge_threshold, upward_gap_threshold,
                         uptrend_min_days, volume_breakout_threshold, pc>>
     ELSE /\ scanning' = TRUE
          /\ tickers' = AlphaFilter(market_tickers', alpha_range)
          /\ price_surge_threshold' = Fraction(price_surge_pct)
          /\ upward_gap_threshold' = Fraction(upward_gap_pct)
          /\ uptrend_min_days' = uptrend_days
          /\ volume_breakout_threshold' = Fraction(volume_breakout_pct)
          /\ pc' = "loop"
          /\ main_pc' = "scanning"
  /\ UNCHANGED <<scanVars, processed, fetched, resultVars, ret, widgetVars>>

\* lines 411-431: perform_scans has returned; main reads the five tables
Display ==
  /\ main_pc = "scanning" /\ pc \in {"done", "stopped"}
  /\ scanning' = FALSE
  /\ stop_requested' = FALSE
  /\ main_pc' = IF \A k \in 1..Len(Lookups) : Lookups[k] \in DOMAIN ret
                 THEN "displayed" ELSE "raised"
  /\ UNCHANGED <<scanVars, argVars, processed, fetched, resultVars, pc, ret,
                 widgetVars, market_tickers>>

NextMain ==
  \/ StartScan
  \/ ScanTicker
  \/ StopScan
  \/ FinishScan
  \/ RequestStop
  \/ Display

SpecMain == InitMain /\ [][NextMain]_vars

(***************************************************************************)
(* Runs of main one after the other on one session state.  Each run goes   *)
(* to its end with one button pressed at most, so that nothing presses     *)
(* Stop while the loop of perform_scans runs; the session may have been    *)
(* left with scanning set by a run that was cut short.  call keeps the     *)
(* latest run without Start Scan: the button and the flag it left.         *)
(***************************************************************************)
InitSession ==
  /\ fn = "none" /\ df = NoFrame /\ call = NoCall
  /\ IdlePass
  /\ scan_days = 20
  /\ market \in {"S&P 500", "Russell 2000", "All US Markets"}
  /\ current_date = strftime(LastDay) + 1
  /\ alpha_range = "All (A-Z)"
  /\ price_surge_pct = <<5, 1>> /\ upward_gap_pct = <<1, 1>>
  /\ uptrend_days = 4 /\ volume_breakout_pct = <<10, 1>>
  /\ scanning \in BOOLEAN
  /\ market_tickers = <<>> /\ main_pc = "ready"

\* lines 339-351: a run with Stop Scan pressed, or with no button pressed
OtherRun ==
  /\ main_pc = "ready"
  /\ \E stop_button \in BOOLEAN :
       /\ stop_requested' = TopOfRun(scanning, stop_requested, stop_button)
       /\ call' = [fn |-> "run", stop_button |-> scanning /\ stop_button,
                   flag |-> stop_requested']
  /\ UNCHANGED <<fn, df, argVars, processed, fetched, resultVars, pc, ret, mainVars>>

\* the run is over: what it held is gone, the session state stays
EndRun ==
  /\ main_pc \in {"aborted", "displayed", "raised"}
  /\ main_pc' = "ready"
  /\ tickers' = <<>> /\ start_date' = 0 /\ end_date' = 0 /\ scan_start_date' = 0
  /\ price_surge_threshold' = <<0, 1>> /\ upward_gap_threshold' = <<0, 1>>
  /\ uptrend_min_days' = 0 /\ volume_breakout_threshold' = <<0, 1>>
  /\ processed' = 0 /\ fetched' = <<>>
  /\ scan_a_results' = <<>> /\ scan_b_results' = <<>>
  /\ scan_c_results' = <<>> /\ scan_d_results' = <<>>
  /\ tickers_with_surge' = {} /\ tickers_with_gap' = {}
  /\ tickers_with_uptrend' = {} /\ tickers_with_volume' = {}
  /\ pc' = "idle" /\ ret' = None
  /\ market_tickers' = <<>>
  /\ UNCHANGED <<scanVars, widgetVars, scanning, stop_requested>>

NextSession ==
  \/ StartScan
  \/ ScanTicker
  \/ FinishScan
  \/ Display
  \/ OtherRun
  \/ EndRun

SpecSession == InitSession /\ [][NextSession]_vars

(***************************************************************************)
(* Claims about the predicates.  A hit is named by the day of its bar;     *)
(* the comparisons the claims state are taken in exact arithmetic, on the  *)
(* integers of the frame and the fraction <<n, d>> of the threshold.       *)
(***************************************************************************)
Range(q) == {q[k] : k \in 1..Len(q)}
RowDates(results) == {results[k][1] : k \in 1..Len(results)}
BarDay(d, idx) == strftime(d.index[idx + 1])
HitAt(results, d, idx) == BarDay(d, idx) \in RowDates(results)
CloseAt(d, idx) == d.cols.Close[idx + 1]
OpenAt(d, idx) == d.cols.Open[idx + 1]
VolumeAt(d, idx) == d.cols.Volume[idx + 1]
ThrLeq(t1, t2) == t1[1] * t2[2] <= t2[1] * t1[2]

\* (c - p) / p * 100 > threshold * 100, for p > 0
SurgeClaim(c, p, t) == (c - p) * 100 * t[2] > t[1] * 100 * p

(* C1: on a series of at least 2 bars with positive closes, scan_price_surge
   emits a hit at bar i >= 1 exactly when (close[i] - close[i-1]) / close[i-1]
   * 100 > threshold * 100; a change equal to the threshold emits no hit, and
   bar 0 never emits a hit. *)
C1_SurgeExactlyAboveThreshold ==
  (call.fn = "surge" /\ len(call.passed) >= 2) =>
    /\ ~HitAt(call.results, call.passed, 0)
    /\ \A idx \in 1..(len(call.passed) - 1) :
         HitAt(call.results, call.passed, idx)
           <=> SurgeClaim(CloseAt(call.passed, idx), CloseAt(call.passed, idx - 1),
                          call.threshold)

\* open > prev_close * (1 + threshold)
GapClaim(o, p, t) == o * t[2] > p * (t[2] + t[1])

(* C2: on a series of at least 2 bars with positive closes and a threshold
   >= 0, scan_upward_gap emits a hit at bar i >= 1 exactly when open[i] >
   close[i-1] * (1 + threshold), and that is equivalent to the reported
   gap_pct being strictly greater than threshold * 100; at the ratios of the
   example (previous close 200, threshold 0.01) open 204 is a hit with gap_pct
   2 and open 201 is none. *)
C2_GapExactlyAboveThreshold ==
  (call.fn = "gap" /\ len(call.passed) >= 2 /\ call.threshold[1] >= 0) =>
    \A idx \in 1..(len(call.passed) - 1) :
      LET o   == OpenAt(call.passed, idx)
          p   == CloseAt(call.passed, idx - 1)
          hit == HitAt(call.results, call.passed, idx)
      IN  /\ hit <=> GapClaim(o, p, call.threshold)
          /\ hit <=> FGt(GapPct(o, p), FMul(Float(call.threshold), FFromInt(100)))
          /\ (call.threshold = <<1, 100>> /\ p = 200 /\ o = 204) =>
               <<BarDay(call.passed, idx), FFromInt(2), o>> \in Range(call.results)
          /\ (call.threshold = <<1, 100>> /\ p = 200 /\ o = 201) => ~hit

\* the running streak after bar idx: 1 on bar 0, one more on a strict rise, else 1 again
RECURSIVE Streak(_, _)
Streak(d, idx) ==
  IF idx = 0 THEN 1
  ELSE IF CloseAt(d, idx) > CloseAt(d, idx - 1) THEN Streak(d, idx - 1) + 1
  ELSE 1

StreakRows(d, min_days) ==
  {<<BarDay(d, idx), Streak(d, idx), CloseAt(d, idx)>> :
     idx \in {j \in 1..(len(d) - 1) : Streak(d, j) >= min_days}}

UptrendAsStreak(lowest) ==
  (call.fn = "uptrend" /\ call.min_days >= lowest /\ len(call.passed) >= call.min_days) =>
    /\ Range(call.results) = StreakRows(call.passed, call.min_days)
    /\ Len(call.results) = Cardinality(StreakRows(call.passed, call.min_days))

(* C3, as claimed: for every min_days >= 1 and series of at least min_days
   bars, scan_continuous_uptrend emits a hit at bar i >= 1 exactly when the
   running streak after bar i is >= min_days, the hit carrying the streak and
   close[i]. *)
C3_UptrendFromOneDay == UptrendAsStreak(1)

(* C3, amended: the same for every min_days >= 2. *)
C3_UptrendFromTwoDays == UptrendAsStreak(2)

C3_Witness ==
  /\ call.fn = "uptrend" /\ call.min_days >= 2
  /\ \E idx \in 1..(len(call.passed) - 1) :
       /\ HitAt(call.results, call.passed, idx)
       /\ \E later \in (idx + 1)..(len(call.passed) - 1) :
            /\ CloseAt(call.passed, later) = CloseAt(call.passed, later - 1)
            /\ ~HitAt(call.results, call.passed, later)

\* the number of bars of the strictly ascending run that starts at bar 0
RECURSIVE RunLength(_, _)
RunLength(d, n) ==
  IF n < len(d) /\ CloseAt(d, n) > CloseAt(d, n - 1) THEN RunLength(d, n + 1) ELSE n

(* C4: for min_days in 2..MaxMinDays and a series that starts with a strictly
   ascending run of N >= min_days closes, scan_continuous_uptrend emits over
   the run exactly N - min_days + 1 hits, one per bar, with the streaks
   min_days, ..., N in that order, and none at the bar that ends the run; the
   documented example gives the hits of index 3 (streak 4) and 4 (streak 5). *)
C4_UptrendHitsOverRun ==
  (call.fn = "uptrend" /\ call.min_days >= 2 /\ len(call.passed) >= 1) =>
    LET d     == call.passed
        N     == RunLength(d, 1)
        inRun == SelectSeq(call.results, LAMBDA r : \E idx \in 0..(N - 1) : r[1] = BarDay(d, idx))
    IN  /\ N >= call.min_days =>
             /\ inRun = [k \in 1..(N - call.min_days + 1) |->
                           <<BarDay(d, call.min_days - 2 + k), call.min_days - 1 + k,
                             CloseAt(d, call.min_days - 2 + k)>>]
             /\ N < len(d) => ~HitAt(call.results, d, N)
        /\ (d.cols.Close = UptrendExample /\ call.min_days = 4) =>
             call.results = << <<BarDay(d, 3), 4, 112>>, <<BarDay(d, 4), 5, 115>> >>

C4_Witness ==
  /\ call.fn = "uptrend" /\ call.min_days = 4
  /\ call.passed.cols.Close = UptrendExample
  /\ Len(call.results) = 2

\* volume > mean * (1 + threshold), the mean being sum / ma_period
VolumeClaim(v, sum, ma_period, t) == v * ma_period * t[2] > sum * (t[2] + t[1])

RECURSIVE VolumeSum(_, _, _)
VolumeSum(d, from, to) ==
  IF from > to THEN 0 ELSE VolumeAt(d, from) + VolumeSum(d, from + 1, to)

(* C5: scan_volume_breakout emits a hit at bar i exactly when i >= ma_period
   and volume[i] > avg_i * (1 + threshold), avg_i the mean of the volumes of
   bars [i - ma_period + 1, i]; no index < ma_period is ever a hit. *)
C5_VolumeExactlyAboveAverage ==
  (call.fn = "volume" /\ call.ma_period >= 1) =>
    \A idx \in 0..(len(call.passed) - 1) :
      HitAt(call.results, call.passed, idx)
        <=> /\ idx >= call.ma_period
            /\ VolumeClaim(VolumeAt(call.passed, idx),
                           VolumeSum(call.passed, idx - call.ma_period + 1, idx),
                           call.ma_period, call.threshold)

(* C6: every predicate returns an empty list on too short an input: fewer
   than 2 bars for scan_price_surge and scan_upward_gap, fewer than min_days
   for scan_continuous_uptrend, fewer than ma_period for
   scan_volume_breakout. *)
C6_EmptyOnShortInput ==
  /\ (call.fn \in {"surge", "gap"} /\ len(call.passed) < 2) => call.results = <<>>
  /\ (call.fn = "uptrend" /\ len(call.passed) < call.min_days) => call.results = <<>>
  /\ (call.fn = "volume" /\ len(call.passed) < call.ma_period) => call.results = <<>>

C6_Witness ==
  /\ call.fn = "gap" /\ len(call.passed) = 1
  /\ GapClaim(OpenAt(call.passed, 0), CloseAt(call.passed, 0), call.threshold)
  /\ call.results = <<>>

(* C7: between two calls of scan_price_surge on the same series, the call
   with the higher threshold returns hits at a subset of the bars the other
   returns. *)
C7_SurgeMonotone ==
  [][(call.fn = "surge" /\ call'.fn = "surge" /\ call'.passed.index = call.passed.index
        /\ call'.passed.cols.Close = call.passed.cols.Close) =>
       /\ ThrLeq(call.threshold, call'.threshold) =>
            RowDates(call'.results) \subseteq RowDates(call.results)
       /\ ThrLeq(call'.threshold, call.threshold) =>
            RowDates(call.results) \subseteq RowDates(call'.results)]_vars

C7_Witness ==
  /\ call.fn = "surge" /\ call.results # <<>>
  /\ \E t \in SurgeThresholds :
       /\ ThrLeq(call.threshold, t)
       /\ RowDates(scan_price_surge(df, t)) # RowDates(call.results)
       /\ RowDates(scan_price_surge(df, t)) # {}

(***************************************************************************)
(* Claims about perform_scans.                                             *)
(***************************************************************************)
Finished == pc \in {"done", "stopped"}
\* the symbols of the universe, ascending as Python strings
TickerOrder == <<"AB", "B">>
Rank(ticker) == CHOOSE k \in 1..Len(TickerOrder) : TickerOrder[k] = ticker
TickersOf(rows) == {rows[k]["Ticker"] : k \in 1..Len(rows)}

(* C8: after any pass, complete or interrupted, whatever the order and the
   repetitions of the ticker list, the tickers of the Combined table are the
   intersection of the four hit-sets, each once, in strictly ascending
   order; so they are a subset of each hit-set, with no more rows than the
   smallest hit-set has tickers. *)
C8_CombinedIsIntersection ==
  Finished =>
    LET rows == ret[KeyCombined].rows
    IN  /\ TickersOf(rows) = tickers_with_surge \cap tickers_with_gap
                               \cap tickers_with_uptrend \cap tickers_with_volume
        /\ \A k \in 1..(Len(rows) - 1) : Rank(rows[k]["Ticker"]) < Rank(rows[k + 1]["Ticker"])
        /\ \A hits \in {tickers_with_surge, tickers_with_gap,
                         tickers_with_uptrend, tickers_with_volume} :
             TickersOf(rows) \subseteq hits /\ Len(rows) <= Cardinality(hits)

C8_Witness ==
  /\ pc = "done"
  /\ Len(ret[KeyCombined].rows) = 2
  /\ Rank(tickers[1]) > Rank(tickers[2])

\* a bar of the fetched frame, before the scan period, whose volume breaks out
OldVolumeHit(d) ==
  \E idx \in DefaultMaPeriod..(len(d) - 1) :
    /\ d.index[idx + 1] < scan_start_date
    /\ VolumeClaim(VolumeAt(d, idx), VolumeSum(d, idx - DefaultMaPeriod + 1, idx),
                   DefaultMaPeriod, volume_breakout_threshold)

(* C9: every row of the four scan result lists is dated on or after
   scan_start_date, and a ticker is in the volume hit-set only with a volume
   row in the list: volume hits before the scan period are dropped. *)
C9_RowsInScanPeriod ==
  /\ \A k \in 1..Len(scan_a_results) : ParseDate(scan_a_results[k]["Date"]) >= scan_start_date
  /\ \A k \in 1..Len(scan_b_results) : ParseDate(scan_b_results[k]["Date"]) >= scan_start_date
  /\ \A k \in 1..Len(scan_c_results) :
       ParseDate(scan_c_results[k]["End Date"]) >= scan_start_date
  /\ \A k \in 1..Len(scan_d_results) : ParseDate(scan_d_results[k]["Date"]) >= scan_start_date
  /\ tickers_with_volume \subseteq TickersOf(scan_d_results)

C9_Witness ==
  \E k \in 1..Len(fetched) :
    /\ fetched[k].feed.kind = "data"
    /\ OldVolumeHit(fetched[k].feed.data)
    /\ fetched[k].ticker \notin tickers_with_volume
    /\ fetched[k].ticker \in tickers_with_surge

\* the fetch fails, or brings fewer than 10 bars
BadFetch(f) == f.feed.kind = "error" \/ len(f.feed.data) < 10

\* the fetch brings exactly 10 bars, with a surge between two bars of the scan period
TenBarsWithSurge(f) ==
  /\ f.feed.kind = "data" /\ len(f.feed.data) = 10
  /\ \E idx \in 1..9 :
       /\ f.feed.data.index[idx] >= scan_start_date
       /\ SurgeClaim(CloseAt(f.feed.data, idx), CloseAt(f.feed.data, idx - 1),
                     price_surge_threshold)

(* C10: an iteration whose fetch fails, or brings no bars or fewer than 10,
   adds no row and no hit-set member and leaves the loop running on the next
   ticker: no error leaves perform_scans; a fetch of exactly 10 bars is
   scanned. *)
C10_BadFetchSkipped ==
  [][(pc = "loop" /\ Len(fetched') = Len(fetched) + 1) =>
       LET f == fetched'[Len(fetched')]
       IN  /\ pc' # "raised"
           /\ BadFetch(f) =>
                /\ UNCHANGED resultVars
                /\ pc' = "loop" /\ processed' = processed + 1
           /\ TenBarsWithSurge(f) =>
                /\ f.ticker \in tickers_with_surge'
                /\ Len(scan_a_results') > Len(scan_a_results)]_vars

C10_Witness ==
  \E k \in 1..Len(fetched) : \E j \in (k + 1)..Len(fetched) :
    /\ BadFetch(fetched[k])
    /\ TenBarsWithSurge(fetched[j])
    /\ fetched[k].ticker \notin tickers_with_surge
    /\ fetched[j].ticker \in tickers_with_surge

\* the tables of the returned dictionary other than the combined one
ScanTables(returned) == {returned[key].rows : key \in DOMAIN returned \ {KeyCombined}}

(* C11: once the stop flag is set, the check before the next ticker ends the
   loop: no further fetch is issued, the result lists and hit-sets stay as the
   tickers gone through left them, and perform_scans returns its five tables,
   the combined one built from those hit-sets; a flag set after the last
   ticker changes nothing. *)
C11_StopEndsThePass ==
  [][(pc = "loop" /\ stop_requested) =>
       /\ fetched' = fetched /\ processed' = processed
       /\ UNCHANGED resultVars
       /\ pc' = IF processed < Len(tickers) THEN "stopped" ELSE "done"
       /\ Cardinality(DOMAIN ret') = 5
       /\ ScanTables(ret') =
            {scan_a_results, scan_b_results, scan_c_results, scan_d_results}
       /\ TickersOf(ret'[KeyCombined].rows) =
            tickers_with_surge \cap tickers_with_gap
              \cap tickers_with_uptrend \cap tickers_with_volume]_vars

C11_Witness ==
  /\ pc = "stopped" /\ stop_requested
  /\ processed = 1 /\ Len(fetched) = 1 /\ Len(tickers) = 2
  /\ scan_a_results # <<>>
  /\ Len(ret[KeyCombined].rows) = 1

\* the bars fetched for the ticker of the row and dated as the row is
BarsOfRow(row, date) ==
  UNION {{<<fetched[k].feed.data, idx>> :
            idx \in {at \in 0..(len(fetched[k].feed.data) - 1) :
                       BarDay(fetched[k].feed.data, at) = date}} :
          k \in {j \in 1..Len(fetched) : /\ fetched[j].ticker = row["Ticker"]
                                          /\ fetched[j].feed.kind = "data"}}

(* C16: every row of the Volume Breakout list carries, in its Volume field,
   the volume traded on the bar of the hit: the bar of the row's date in the
   data fetched for the row's ticker. *)
C16_VolumeFieldIsBarVolume ==
  \A k \in 1..Len(scan_d_results) :
    \E bar \in BarsOfRow(scan_d_results[k], scan_d_results[k]["Date"]) :
      scan_d_results[k]["Volume"] = VolumeAt(bar[1], bar[2])

\* the positions of the rows of the ticker in a result list
RowsOf(rows, ticker) == {k \in 1..Len(rows) : rows[k]["Ticker"] = ticker}
\* the least of a non-empty set of positions
Least(S) == CHOOSE k \in S : \A j \in S : k <= j

(* C17: each Combined row takes its Price from the Close Price of the first
   row of its ticker in the Price Surge list, and its Volume from the Volume
   field of the first row of its ticker in the Volume Breakout list; the
   later rows of the ticker have no influence. *)
C17_CombinedFromFirstRows ==
  Finished =>
    \A k \in 1..Len(ret[KeyCombined].rows) :
      LET row     == ret[KeyCombined].rows[k]
          surges  == RowsOf(scan_a_results, row["Ticker"])
          volumes == RowsOf(scan_d_results, row["Ticker"])
      IN  /\ surges # {} /\ volumes # {}
          /\ row["Price"] = scan_a_results[Least(surges)]["Close Price"]
          /\ row["Volume"] = scan_d_results[Least(volumes)]["Volume"]

C17_Witness ==
  /\ Finished
  /\ \E k \in 1..Len(ret[KeyCombined].rows) :
       LET row == ret[KeyCombined].rows[k]
       IN  /\ \E j \in RowsOf(scan_a_results, row["Ticker"]) :
                scan_a_results[j]["Close Price"] # row["Price"]
           /\ \E j \in RowsOf(scan_d_results, row["Ticker"]) :
                scan_d_results[j]["Volume"] # row["Volume"]

\* the rows of the ticker in the Price Surge list that no row of it postdates
LatestSurges(ticker) ==
  {k \in RowsOf(scan_a_results, ticker) :
     \A j \in RowsOf(scan_a_results, ticker) :
       scan_a_results[j]["Date"] <= scan_a_results[k]["Date"]}

(* C18: each Combined row's Price is the most recent known close among the
   Price Surge hits of its ticker, the close of the latest-dated hit, also
   when the ticker has two or more Price Surge hits. *)
C18_CombinedPriceIsLatestClose ==
  Finished =>
    \A k \in 1..Len(ret[KeyCombined].rows) :
      LET row == ret[KeyCombined].rows[k]
      IN  \E j \in LatestSurges(row["Ticker"]) :
            row["Price"] = scan_a_results[j]["Close Price"]

(* C19: perform_scans goes through the list in order, one ticker at a time:
   the k-th fetch is for tickers[k], so no position is fetched twice; a fetch
   is issued only when all earlier tickers are done with, and is done with in
   the same iteration; and the loop ends, after at most len(tickers)
   iterations, also when every fetch fails and when the list is empty. *)
C19_OneTickerAtATime ==
  /\ [](/\ Len(fetched) <= Len(tickers)
        /\ processed <= Len(tickers)
        /\ \A k \in 1..Len(fetched) : fetched[k].ticker = tickers[k])
  /\ [][fetched' # fetched =>
          /\ Len(fetched) = processed
          /\ Len(fetched') = processed + 1
          /\ SubSeq(fetched', 1, processed) = fetched
          /\ processed' = processed + 1]_vars
  /\ <>(pc # "loop")

C19_Witness ==
  /\ pc = "done"
  /\ processed = MaxTickers /\ Len(fetched) = MaxTickers
  /\ tickers[1] = tickers[2]
  /\ \A k \in 1..Len(fetched) : fetched[k].feed.kind = "error"

\* the list has grown at its end only, by rows of the one ticker, each dated
\* after the one before
GrownBy(old, new, ticker, date) ==
  /\ Len(old) <= Len(new)
  /\ SubSeq(new, 1, Len(old)) = old
  /\ \A k \in (Len(old) + 1)..Len(new) :
       /\ new[k]["Ticker"] = ticker
       /\ k > Len(old) + 1 => new[k - 1][date] < new[k][date]

(* C20: a pass starts with its four result lists and four hit-sets empty;
   while it runs they only grow, no row or member being removed or
   rewritten; an iteration appends rows of its own ticker only, in
   ascending date order, so the lists are in ticker-then-date order; once
   the loop has ended they no longer change. *)
C20_ResultsOnlyGrow ==
  /\ [](fetched = <<>> =>
          /\ scan_a_results = <<>> /\ scan_b_results = <<>>
          /\ scan_c_results = <<>> /\ scan_d_results = <<>>
          /\ tickers_with_surge = {} /\ tickers_with_gap = {}
          /\ tickers_with_uptrend = {} /\ tickers_with_volume = {})
  /\ [][/\ GrownBy(scan_a_results, scan_a_results', tickers[processed + 1], "Date")
        /\ GrownBy(scan_b_results, scan_b_results', tickers[processed + 1], "Date")
        /\ GrownBy(scan_c_results, scan_c_results', tickers[processed + 1], "End Date")
        /\ GrownBy(scan_d_results, scan_d_results', tickers[processed + 1], "Date")
        /\ tickers_with_surge \subseteq tickers_with_surge'
        /\ tickers_with_gap \subseteq tickers_with_gap'
        /\ tickers_with_uptrend \subseteq tickers_with_uptrend'
        /\ tickers_with_volume \subseteq tickers_with_volume'
        /\ pc # "loop" => UNCHANGED resultVars]_vars

C20_Witness ==
  /\ Finished
  /\ \E k \in 2..(Len(scan_a_results) - 1) :
       /\ scan_a_results[k - 1]["Ticker"] = scan_a_results[k]["Ticker"]
       /\ scan_a_results[k - 1]["Date"] < scan_a_results[k]["Date"]
       /\ scan_a_results[k]["Ticker"] # scan_a_results[k + 1]["Ticker"]
       /\ scan_a_results[k]["Date"] >= scan_a_results[k + 1]["Date"]

(***************************************************************************)
(* Claims about main.                                                      *)
(***************************************************************************)
(* C12: when the retrieval of the ticker universe returns an empty list,
   main stops there: perform_scans is not called, no ticker data is
   fetched, the scanning flag is back to False and no exception is raised;
   main stops there for no other reason. *)
C12_EmptyUniverseAborts ==
  /\ (main_pc # "ready" /\ market_tickers = <<>>) =>
        /\ main_pc = "aborted"
        /\ pc = "idle" /\ ret = None
        /\ fetched = <<>>
        /\ scanning = FALSE
  /\ main_pc = "aborted" => market_tickers = <<>>

C12_Witness ==
  /\ main_pc = "aborted"
  /\ market = "S&P 500"
  /\ pc = "idle" /\ fetched = <<>> /\ scanning = FALSE

\* the letters of a range, as code points: "D-F" is D, E and F
LettersOf(range) ==
  CASE range = "A-C" -> 65..67
    [] range = "D-F" -> 68..70
    [] range = "G-I" -> 71..73
    [] range = "J-L" -> 74..76
    [] range = "M-O" -> 77..79
    [] range = "P-R" -> 80..82
    [] range = "S-U" -> 83..85
    [] range = "V-Z" -> 86..90

\* the tickers of the list that begin with one of the letters, in either
\* case, in the order of the list
RECURSIVE Beginning(_, _)
Beginning(list, letters) ==
  IF list = <<>> THEN <<>>
  ELSE (IF \E c \in letters : Codes(Head(list))[1] \in {c, c + 32}
        THEN <<Head(list)>> ELSE <<>>) \o Beginning(Tail(list), letters)

(* C13: for each of the eight alphabetical ranges and every list of
   tickers, the filter keeps exactly the tickers whose first character,
   upper-cased, is a letter of the range, in the order they had; "D-F" on
   [AAPL, DOW, EBAY, FORD, GOOG, ZOOM] gives [DOW, EBAY, FORD]. *)
C13_FilterKeepsTheRange ==
  (call.fn = "filter" /\ call.alpha_range # "All (A-Z)") =>
    /\ call.results = Beginning(call.passed, LettersOf(call.alpha_range))
    /\ (call.passed = FilterExample /\ call.alpha_range = "D-F") =>
          call.results = <<"DOW", "EBAY", "FORD">>

C13_Witness ==
  /\ call.fn = "filter" /\ call.alpha_range = "D-F"
  /\ call.passed = FilterExample
  /\ call.results = <<"DOW", "EBAY", "FORD">>

\* the weekdays from the day of one timestamp up to the day before that of
\* another; day 0 is a Monday and no bar is dated on a weekend
Weekdays(from, to) == {d \in strftime(from)..(strftime(to) - 1) : d % 7 < 5}

(* C14: whatever the number of days to scan, from 5 to 60, and the end
   date, the fetch window main computes reaches at least 50 trading days
   further back than the report window, so that every bar of the report
   window has 50 bars or more before it in the series fetched. *)
C14_FiftyTradingDaysBeforeReport ==
  main_pc # "ready" =>
    /\ Cardinality(Weekdays(start_date, scan_start_date)) >= DefaultMaPeriod
    /\ \A k \in 1..Len(fetched) :
         fetched[k].feed.kind = "data" =>
           LET data == history(fetched[k].feed, start_date, end_date)
           IN  \A idx \in 0..(len(data) - 1) :
                 data.index[idx + 1] >= scan_start_date => idx >= DefaultMaPeriod

(* C15: whatever the four parameters, their defaults included, each of the
   five tables main reads is in the dictionary perform_scans returned
   under the name main reads it by, so that a scan that has completed is
   displayed without an error. *)
C15_TablesReadByTheirNames ==
  /\ (main_pc = "scanning" /\ pc \in {"done", "stopped"}) =>
        \A k \in 1..Len(Lookups) : Lookups[k] \in DOMAIN ret
  /\ main_pc # "raised"

(***************************************************************************)
(* Claims about the series the predicates are given.                       *)
(***************************************************************************)
(* C21: each of the four predicates leaves the series it was given as it
   was before the call: the same bars, and no column added or changed. *)
C21_SeriesLeftAsGiven ==
  call.fn # "none" =>
    /\ df.index = call.passed.index
    /\ DOMAIN df.cols = DOMAIN call.passed.cols
    /\ df = call.passed

(***************************************************************************)
(* Further claims about a pass of perform_scans.                           *)
(***************************************************************************)
\* the values a field takes in the rows of the ticker
FieldsOf(rows, ticker, field) == {rows[k][field] : k \in RowsOf(rows, ticker)}

(* C22: between two iterations of the loop and at the return, a ticker is
   in the hit-set of a predicate exactly when the result list of that
   predicate has a row for it; so the Price and the Volume of every
   Combined row are those of a result row of its ticker, never 'N/A'. *)
C22_HitSetsMatchRows ==
  /\ tickers_with_surge = TickersOf(scan_a_results)
  /\ tickers_with_gap = TickersOf(scan_b_results)
  /\ tickers_with_uptrend = TickersOf(scan_c_results)
  /\ tickers_with_volume = TickersOf(scan_d_results)
  /\ Finished =>
       \A k \in 1..Len(ret[KeyCombined].rows) :
         LET row == ret[KeyCombined].rows[k]
         IN  /\ row["Price"] \in FieldsOf(scan_a_results, row["Ticker"], "Close Price")
             /\ row["Price"] # "N/A"
             /\ row["Volume"] \in FieldsOf(scan_d_results, row["Ticker"], "Volume")
             /\ row["Volume"] \in Nat

C22_Witness ==
  /\ Finished
  /\ Len(ret[KeyCombined].rows) = 1
  /\ tickers_with_volume # tickers_with_surge
  /\ Len(scan_d_results) > 1

(* C23: over runs of main on one session state, each gone to its end with
   one button pressed at most, stop_requested is False whenever the loop of
   perform_scans checks it: it is cleared just before perform_scans is
   called, also when an earlier run has set it, and nothing sets it while
   the loop runs. *)
C23_StopNeverSeenSet ==
  /\ pc = "loop" => stop_requested = FALSE
  /\ pc # "stopped"

C23_Witness ==
  /\ pc = "loop" /\ main_pc = "scanning"
  /\ processed = 1 /\ Len(tickers) = 2
  /\ call.fn = "run" /\ call.stop_button /\ call.flag
  /\ stop_requested = FALSE

\* the fetch brought enough bars to be scanned, some of them in the report window
Scanned(f) ==
  /\ f.feed.kind = "data" /\ len(f.feed.data) >= MinBars
  /\ \E idx \in 0..(len(f.feed.data) - 1) : f.feed.data.index[idx + 1] >= scan_start_date

\* the position, from 0, of the first bar of the report window in the data fetched
FirstOfSlice(d) ==
  Least({idx \in 0..(len(d) - 1) : d.index[idx + 1] >= scan_start_date})

\* the dates of the rows a step has added to a list
DatesAdded(old, new, date) == {new[k][date] : k \in (Len(old) + 1)..Len(new)}

\* the first bar of the report window jumps and gaps up from the bar before it
JumpsIntoSlice(d) ==
  LET first == FirstOfSlice(d)
  IN  /\ first > 0
      /\ SurgeClaim(CloseAt(d, first), CloseAt(d, first - 1), price_surge_threshold)
      /\ GapClaim(OpenAt(d, first), CloseAt(d, first - 1), upward_gap_threshold)

(* C24: in perform_scans the first bar of the report window of a ticker
   gives no Price Surge, Upward Gap or Continuous Uptrend row, however its
   open and close stand to the bar before it in the fetch window: the three
   predicates are given the slice and compare a bar with the one before it
   in the slice only. *)
C24_FirstSliceBarGivesNoRow ==
  [][(fetched' # fetched /\ Scanned(fetched'[Len(fetched')])) =>
       LET d     == fetched'[Len(fetched')].feed.data
           first == BarDay(d, FirstOfSlice(d))
       IN  /\ first \notin DatesAdded(scan_a_results, scan_a_results', "Date")
           /\ first \notin DatesAdded(scan_b_results, scan_b_results', "Date")
           /\ first \notin DatesAdded(scan_c_results, scan_c_results', "End Date")]_vars

C24_Witness ==
  /\ Len(fetched) = 1 /\ Scanned(fetched[1])
  /\ JumpsIntoSlice(fetched[1].feed.data)
  /\ scan_a_results # <<>> /\ scan_b_results # <<>> /\ scan_c_results # <<>>
  /\ \A k \in 1..Len(scan_a_results) :
       scan_a_results[k]["Date"] >
         BarDay(fetched[1].feed.data, FirstOfSlice(fetched[1].feed.data))
====
